---- MODULE Spec2Model ----
(***************************************************************************)
(* A model of milestone-patches.py: one run of the script is the listing   *)
(* loop, the optional coverage verification, and the patch-writing loop.   *)
(* The forge (pull requests, issues, repository history) is a frozen       *)
(* snapshot drawn in Init; the patches/ directory outlives a run.          *)
(***************************************************************************)
EXTENDS Integers, Sequences, FiniteSets, TLC

VARIABLES
    prs,        \* forge: the milestone's closed pull requests, in landing order
    iss,        \* forge: the milestone's closed true issues
    no_verify,  \* options.no_verify
    run,        \* how many times the script has been started
    pc,         \* position of the script
    li,         \* listing loop: next item of repo.get_issues(...)
    pulls,      \* dict closed_at -> pull request, in insertion order
    issues,     \* dict closed_at -> issue, in insertion order
    shas,       \* verify_issue_fixes_are_milestoned: dict sha -> pull request
    vi,         \* verification: next entry of pulls
    xi,         \* verification: next entry of issues
    warnings,   \* issues for which 'Could not find a PR that closed issue' was printed
    mi,         \* patch-writing loop: next entry of pulls
    files,      \* patches/ and patches/done/: file name -> [dir, content]
    net,        \* per pull request: resolver calls and patch requests of the patch-writing loop
    outcome,    \* per pull request: what the patch-writing loop of this run did with it
    last,       \* the most recent call of pr_get_repo_shas and what it returned
    arg,        \* issue handed to issue_get_closing_sha when it is exercised on its own
    ret         \* what the two variants of issue_get_closing_sha returned for arg

vars == <<prs, iss, no_verify, run, pc, li, pulls, issues, shas, vi, xi,
          warnings, mi, files, net, outcome, last, arg, ret>>

----------------------------------------------------------------------------
(* Bounds *)
MaxPulls == 2
MaxIssues == 1
MaxCommits == 2
MaxTime == 2
MaxRuns == 2
MaxNodes == 2
MaxEvents == 2

(* Python's None where a commit identifier is expected *)
NoSha == 0

Min(a, b) == IF a < b THEN a ELSE b

SetMax(S) == CHOOSE m \in S : \A x \in S : x <= m

RECURSIVE SortDesc(_)
SortDesc(S) == IF S = {} THEN <<>>
               ELSE LET m == SetMax(S) IN <<m>> \o SortDesc(S \ {m})

RECURSIVE Reverse(_)
Reverse(s) == IF s = <<>> THEN <<>> ELSE Reverse(Tail(s)) \o <<Head(s)>>

Range(s) == {s[k] : k \in DOMAIN s}

----------------------------------------------------------------------------
(* The repository history the forge serves, built from the pull requests   *)
(* that landed: commits are numbered in the order they entered the         *)
(* repository, 1 being the root commit.                                    *)

Strategies == {"merge", "rebase", "squash"}
EventKinds == {"ok", "none", "nocommit", "foreign"}

PullRec == [merged : BOOLEAN, event : EventKinds, strategy : Strategies,
            commits : 1..MaxCommits, closed_at : 1..MaxTime]

\* commits a landed pull request added to the repository
Cnt(i) == IF ~prs[i].merged THEN 0
          ELSE IF prs[i].strategy = "rebase" THEN prs[i].commits
          ELSE IF prs[i].strategy = "squash" THEN 1
          ELSE prs[i].commits + 1

\* the tip of the target branch after pull requests 1..i landed
RECURSIVE Tip(_)
Tip(i) == IF i = 0 THEN 1 ELSE Tip(i - 1) + Cnt(i)

Owner(s) == CHOOSE i \in DOMAIN prs : Tip(i - 1) < s /\ s <= Tip(i)

\* commit.parents
Parents(s) ==
    IF s = 1 THEN <<>>
    ELSE LET i == Owner(s)
             b == Tip(i - 1)
         IN IF prs[i].strategy = "merge" /\ s = b + prs[i].commits + 1
            THEN <<b, s - 1>>
            ELSE <<s - 1>>

\* (commit.author.date, commit.message) of a commit of the repository
Key(s) ==
    IF s = 1 THEN <<0, 0>>
    ELSE LET i == Owner(s)
             k == s - Tip(i - 1)
         IN IF prs[i].strategy = "squash" THEN <<i, 0>> ELSE <<i, k>>

\* keys of pr.get_commits(): the pull request's own commits
PrKeys(i) == {<<i, k>> : k \in 1..prs[i].commits}

RECURSIVE Ancestors(_)
Ancestors(s) == {s} \cup UNION {Ancestors(Parents(s)[k]) : k \in DOMAIN Parents(s)}

\* repo.get_commits(sha): the history reachable from sha, newest first
GetCommits(s) == SortDesc(Ancestors(s))

\* Python's seq[:n]
Slice(s, n) == SubSeq(s, 1, Min(n, Len(s)))

\* the commit the forge records as the one that merged the pull request
MergeSha(i) == Tip(i)

\* issuepr.get_events()
Events(i) ==
    <<[event |-> "closed", commit_id |-> NoSha, ours |-> TRUE]>> \o
    (CASE prs[i].event = "ok" ->
            <<[event |-> "merged", commit_id |-> MergeSha(i), ours |-> TRUE]>>
       [] prs[i].event = "nocommit" ->
            <<[event |-> "merged", commit_id |-> NoSha, ours |-> TRUE]>>
       [] prs[i].event = "foreign" ->
            <<[event |-> "merged", commit_id |-> MergeSha(i), ours |-> FALSE]>>
       [] OTHER -> <<>>)

----------------------------------------------------------------------------
(* pr_get_merging_sha and pr_get_repo_shas *)

Raised == [raised |-> "AssertionError", sha |-> NoSha]

Returned(s) == [raised |-> "no", sha |-> s]

RECURSIVE ScanMerged(_)
ScanMerged(evs) ==
    IF evs = <<>> THEN Raised
    ELSE LET e == Head(evs)
         IN IF e.event # "merged" THEN ScanMerged(Tail(evs))
            ELSE IF e.commit_id = NoSha THEN Raised
            ELSE IF ~e.ours THEN Raised
            ELSE Returned(e.commit_id)

pr_get_merging_sha(i) == ScanMerged(Events(i))

top_sha_first_parent(merge_sha) ==
    IF Len(Parents(merge_sha)) = 2 THEN Parents(merge_sha)[1] ELSE merge_sha

top_sha(merge_sha) ==
    IF Len(Parents(merge_sha)) = 2 THEN Parents(merge_sha)[2] ELSE merge_sha

\* the loop over repo.get_commits(top_sha)[:pr.commits]: every walked commit
\* is appended, whether or not its key is one of the pull request's
repo_shas(i, top) == Slice(GetCommits(top), prs[i].commits)

\* walked commits whose key is not in pr_shas (the 'squashed?' warning)
Unmatched(i, top) ==
    {s \in Range(repo_shas(i, top)) : Key(s) \notin PrKeys(i)}

pr_get_repo_shas(i) ==
    LET m == pr_get_merging_sha(i)
    IN IF m.raised # "no" THEN [raised |-> m.raised, shas |-> <<>>]
       ELSE LET top == top_sha(m.sha)
                walked == repo_shas(i, top)
            IN [raised |-> "no",
                shas |-> IF walked = <<>> THEN <<top>> ELSE walked]

----------------------------------------------------------------------------
(* issue_get_closing_sha *)

RefKinds == {"none", "unmerged", "foreign", "outside", "pull"}

IssueRec == [closed_at : 1..MaxTime, kind : RefKinds, pr : 0..MaxPulls]

Node == [ours : BOOLEAN, oid : 0..1]
Event == [event : {"closed", "referenced", "reopened"}, commit_id : 0..1, ours : BOOLEAN]

\* closedByPullRequestsReferences of a milestone issue
Refs(j) ==
    CASE iss[j].kind = "unmerged" -> <<[ours |-> TRUE, oid |-> NoSha]>>
      [] iss[j].kind = "foreign" -> <<[ours |-> FALSE, oid |-> 1]>>
      [] iss[j].kind = "outside" -> <<[ours |-> TRUE, oid |-> 1]>>
      [] iss[j].kind = "pull" ->
            <<[ours |-> TRUE,
               oid |-> IF prs[iss[j].pr].merged THEN MergeSha(iss[j].pr) ELSE NoSha]>>
      [] OTHER -> <<>>

\* repo.get_issues(milestone=m, state="closed") only yields closed issues
IssueObj(j) == [state |-> "closed", nodes |-> Refs(j), events |-> <<>>]

RECURSIVE ScanNodes(_, _)
ScanNodes(nodes, state) ==
    IF nodes = <<>>
    THEN IF state # "closed" THEN Raised ELSE Returned(NoSha)
    ELSE LET n == Head(nodes)
         IN IF ~n.ours THEN Raised
            ELSE IF n.oid = NoSha THEN ScanNodes(Tail(nodes), state)
            ELSE Returned(n.oid)

\* milestone-patches.py: the closed-by-pull-requests graph query
issue_get_closing_sha(issue) == ScanNodes(issue.nodes, issue.state)

\* next(events) on an exhausted iterator
StopIteration == [raised |-> "StopIteration", sha |-> NoSha]

RECURSIVE ScanClosed(_)
ScanClosed(evs) ==
    IF evs = <<>> THEN Raised
    ELSE LET e == Head(evs)
         IN IF e.event # "closed" THEN ScanClosed(Tail(evs))
            ELSE IF e.commit_id = NoSha /\ Tail(evs) = <<>> THEN StopIteration
            ELSE LET c == IF e.commit_id = NoSha THEN Head(Tail(evs)) ELSE e
                 IN IF c.commit_id = NoSha THEN Raised
                    ELSE IF ~c.ours THEN Raised
                    ELSE Returned(c.commit_id)

\* api.py: the event-log scan
api_issue_get_closing_sha(issue) == ScanClosed(issue.events)

----------------------------------------------------------------------------
(* Python dicts keep insertion order; assigning to a key that is present   *)
(* replaces its value in place.                                            *)

HasKey(d, k) == \E n \in DOMAIN d : d[n].key = k

DictSet(d, k, v) ==
    IF HasKey(d, k)
    THEN [n \in DOMAIN d |-> IF d[n].key = k THEN [key |-> k, val |-> v] ELSE d[n]]
    ELSE Append(d, [key |-> k, val |-> v])

\* repo.get_issues(milestone=m, state="closed"): pull requests and issues
Listing ==
    [n \in 1..(Len(prs) + Len(iss)) |->
        IF n <= Len(prs) THEN [pull |-> TRUE, idx |-> n]
        ELSE [pull |-> FALSE, idx |-> n - Len(prs)]]

\* the listing loop's branch for an item that is a pull request
OnPullSkipUnmerged(d, i) ==
    IF ~prs[i].merged THEN [exit |-> FALSE, pulls |-> d]
    ELSE [exit |-> FALSE, pulls |-> DictSet(d, prs[i].closed_at, i)]

OnPull(d, i) ==
    IF ~prs[i].merged THEN [exit |-> TRUE, pulls |-> d]
    ELSE [exit |-> FALSE, pulls |-> DictSet(d, prs[i].closed_at, i)]

\* verify_issue_fixes_are_milestoned: the inner loop over one pull request's shas
RECURSIVE AddShasOverwrite(_, _, _)
AddShasOverwrite(m, seq, i) ==
    IF seq = <<>> THEN [raised |-> "no", shas |-> m]
    ELSE AddShasOverwrite((Head(seq) :> i) @@ m, Tail(seq), i)

RECURSIVE AddShas(_, _, _)
AddShas(m, seq, i) ==
    IF seq = <<>> THEN [raised |-> "no", shas |-> m]
    ELSE IF Head(seq) \in DOMAIN m THEN [raised |-> "AssertionError", shas |-> m]
    ELSE AddShas((Head(seq) :> i) @@ m, Tail(seq), i)

\* '{closed_at}--PR{number}' under patches/
FName(d, i) == <<d, i>>

ExistsPatchesOnly(fs, fname) ==
    fname \in DOMAIN fs /\ fs[fname].dir = "patches"

\* foname.exists() or (fdir / 'done' / fname).exists()
Exists(fs, fname) ==
    fname \in DOMAIN fs /\ fs[fname].dir \in {"patches", "done"}

\* pr_to_patch: the requests go out for reversed(shas); the failAt-th one
\* (0: none) answers with a status other than 200
RECURSIVE FetchAllPartial(_, _, _, _)
FetchAllPartial(todo, k, failAt, resp) ==
    IF todo = <<>> THEN [ok |-> TRUE, patch |-> resp, requests |-> k - 1]
    ELSE IF k = failAt THEN [ok |-> resp # <<>>, patch |-> resp, requests |-> k]
    ELSE FetchAllPartial(Tail(todo), k + 1, failAt, Append(resp, Head(todo)))

RECURSIVE FetchAll(_, _, _, _)
FetchAll(todo, k, failAt, resp) ==
    IF todo = <<>> THEN [ok |-> TRUE, patch |-> resp, requests |-> k - 1]
    ELSE IF k = failAt THEN [ok |-> FALSE, patch |-> <<>>, requests |-> k]
    ELSE FetchAll(Tail(todo), k + 1, failAt, Append(resp, Head(todo)))

pr_to_patch(shs, failAt) == FetchAll(Reverse(shs), 1, failAt, <<>>)

----------------------------------------------------------------------------
(* The script *)

NoCall == [pr |-> 0, phase |-> "none", res |-> [raised |-> "no", shas |-> <<>>], failAt |-> 0]
NoArg == [state |-> "closed", nodes |-> <<>>, events |-> <<>>]
NotCalled == [raised |-> "not called", sha |-> NoSha]
NoRet == [graph |-> NotCalled, events |-> NotCalled]

Ordered(q) == \A a, b \in DOMAIN q : a < b => q[a].closed_at <= q[b].closed_at

Init ==
    /\ prs \in {p \in UNION {[1..k -> PullRec] : k \in 0..MaxPulls} :
                  /\ Ordered(p)
                  /\ \A i \in DOMAIN p :
                        ~p[i].merged => /\ p[i].event = "none"
                                        /\ p[i].strategy = "rebase"
                                        /\ p[i].commits = 1}
    /\ iss \in {q \in UNION {[1..k -> IssueRec] : k \in 0..MaxIssues} :
                  /\ Ordered(q)
                  /\ \A j \in DOMAIN q :
                        /\ (q[j].kind = "pull") <=> (q[j].pr # 0)
                        /\ q[j].pr <= Len(prs)}
    /\ no_verify \in BOOLEAN
    /\ run = 1
    /\ pc = "list"
    /\ li = 1
    /\ pulls = <<>>
    /\ issues = <<>>
    /\ shas = <<>>
    /\ vi = 1
    /\ xi = 1
    /\ warnings = {}
    /\ mi = 1
    /\ files = <<>>
    /\ net = [i \in DOMAIN prs |-> [resolves |-> 0, requests |-> 0]]
    /\ outcome = [i \in DOMAIN prs |-> "none"]
    /\ last = NoCall
    /\ arg = NoArg
    /\ ret = NoRet

World == <<prs, iss, no_verify, arg, ret>>

\* one iteration of 'for issue in repo.get_issues(milestone=m, state="closed")'
ListStep ==
    /\ pc = "list"
    /\ li <= Len(Listing)
    /\ LET item == Listing[li]
       IN IF item.pull
          THEN LET r == OnPull(pulls, item.idx)
               IN /\ pulls' = r.pulls
                  /\ pc' = IF r.exit THEN "exit1" ELSE "list"
                  /\ issues' = issues
          ELSE /\ issues' = DictSet(issues, iss[item.idx].closed_at, item.idx)
               /\ pulls' = pulls
               /\ pc' = "list"
    /\ li' = li + 1
    /\ UNCHANGED <<World, run, shas, vi, xi, warnings, mi, files, net, outcome, last>>

\* after the listing loop: os.makedirs, then verification unless it is skipped
ListEnd ==
    /\ pc = "list"
    /\ li > Len(Listing)
    /\ pc' = IF Len(issues) > 0 /\ ~no_verify THEN "verify" ELSE "materialize"
    /\ UNCHANGED <<World, run, li, pulls, issues, shas, vi, xi, warnings, mi,
                   files, net, outcome, last>>

\* verify_issue_fixes_are_milestoned: one iteration of the loop over pulls
VerifyPull ==
    /\ pc = "verify"
    /\ vi <= Len(pulls)
    /\ LET i == pulls[vi].val
           r == pr_get_repo_shas(i)
           a == AddShas(shas, r.shas, i)
       IN /\ last' = [pr |-> i, phase |-> "verify", res |-> r, failAt |-> 0]
          /\ IF r.raised # "no"
             THEN /\ pc' = "crashed_verify"
                  /\ shas' = shas
             ELSE /\ shas' = a.shas
                  /\ pc' = IF a.raised # "no" THEN "crashed_verify" ELSE "verify"
    /\ vi' = vi + 1
    /\ UNCHANGED <<World, run, li, pulls, issues, xi, warnings, mi, files, net, outcome>>

\* verify_issue_fixes_are_milestoned: one iteration of the loop over issues
VerifyIssue ==
    /\ pc = "verify"
    /\ vi > Len(pulls)
    /\ xi <= Len(issues)
    /\ LET j == issues[xi].val
           c == issue_get_closing_sha(IssueObj(j))
       IN IF c.raised # "no"
          THEN /\ pc' = "crashed_verify"
               /\ warnings' = warnings
          ELSE /\ warnings' = IF c.sha # NoSha /\ c.sha \notin DOMAIN shas
                              THEN warnings \cup {j} ELSE warnings
               /\ pc' = IF xi = Len(issues) THEN "materialize" ELSE "verify"
    /\ xi' = xi + 1
    /\ UNCHANGED <<World, run, li, pulls, issues, shas, vi, mi, files, net, outcome, last>>

AfterResolveContinue(r) == "materialize"

\* nothing around pr_get_repo_shas catches the AssertionError: it ends the script
AfterResolve(r) == IF r.raised # "no" THEN "crashed_materialize" ELSE "materialize"

\* one iteration of 'for d, issuepr in pulls.items()'
MaterializeStep ==
    /\ pc = "materialize"
    /\ mi <= Len(pulls)
    /\ LET d == pulls[mi].key
           i == pulls[mi].val
           fname == FName(d, i)
           r == pr_get_repo_shas(i)
       IN IF Exists(files, fname)
          THEN /\ outcome' = [outcome EXCEPT ![i] = "skipped"]
               /\ UNCHANGED <<pc, files, net, last>>
          ELSE IF r.raised # "no"
               THEN /\ pc' = AfterResolve(r)
                    /\ last' = [pr |-> i, phase |-> "materialize", res |-> r, failAt |-> 0]
                    /\ net' = [net EXCEPT ![i].resolves = @ + 1]
                    /\ UNCHANGED <<files, outcome>>
               ELSE \E failAt \in 0..Len(r.shas) :
                         LET p == pr_to_patch(r.shas, failAt)
                         IN /\ last' = [pr |-> i, phase |-> "materialize", res |-> r,
                                        failAt |-> failAt]
                            /\ net' = [net EXCEPT ![i].resolves = @ + 1,
                                                  ![i].requests = @ + p.requests]
                            /\ pc' = AfterResolve(r)
                            /\ IF ~p.ok
                               THEN /\ outcome' = [outcome EXCEPT ![i] = "failed"]
                                    /\ files' = files
                               ELSE /\ outcome' = [outcome EXCEPT ![i] = "written"]
                                    /\ files' = (fname :> [dir |-> "patches",
                                                           content |-> p.patch]) @@ files
    /\ mi' = mi + 1
    /\ UNCHANGED <<World, run, li, pulls, issues, shas, vi, xi, warnings>>

\* the patch-writing loop is exhausted: the script ends
Finish ==
    /\ pc = "materialize"
    /\ mi > Len(pulls)
    /\ pc' = "done"
    /\ UNCHANGED <<World, run, li, pulls, issues, shas, vi, xi, warnings, mi,
                   files, net, outcome, last>>

Ended == pc \in {"done", "exit1", "crashed_verify", "crashed_materialize"}

\* the operator archives applied patches under patches/done/ and starts the
\* script again on the same milestone
Rerun ==
    /\ Ended
    /\ run < MaxRuns
    /\ \E moved \in SUBSET {f \in DOMAIN files : files[f].dir = "patches"} :
          files' = [f \in DOMAIN files |->
                      IF f \in moved THEN [files[f] EXCEPT !.dir = "done"] ELSE files[f]]
    /\ run' = run + 1
    /\ pc' = "list"
    /\ li' = 1
    /\ pulls' = <<>>
    /\ issues' = <<>>
    /\ shas' = <<>>
    /\ vi' = 1
    /\ xi' = 1
    /\ warnings' = {}
    /\ mi' = 1
    /\ outcome' = [i \in DOMAIN prs |-> "none"]
    /\ last' = NoCall
    /\ UNCHANGED <<World, net>>

Next ==
    \/ ListStep
    \/ ListEnd
    \/ VerifyPull
    \/ VerifyIssue
    \/ MaterializeStep
    \/ Finish
    \/ Rerun

Spec == Init /\ [][Next]_vars

----------------------------------------------------------------------------
(* issue_get_closing_sha on its own: any issue the forge can hold, closed  *)
(* or not, handed to the graph-query variant and to the event-log variant. *)

RECURSIVE SeqsUpTo(_, _)
SeqsUpTo(S, n) ==
    IF n = 0 THEN {<<>>}
    ELSE SeqsUpTo(S, n - 1) \cup
         {Append(s, x) : s \in {q \in SeqsUpTo(S, n - 1) : Len(q) = n - 1}, x \in S}

\* the state the forge derives from the issue's closed / reopened events
RECURSIVE StateAfter(_)
StateAfter(evs) ==
    IF evs = <<>> THEN "open"
    ELSE LET e == evs[Len(evs)]
         IN IF e.event = "closed" THEN "closed"
            ELSE IF e.event = "reopened" THEN "open"
            ELSE StateAfter(SubSeq(evs, 1, Len(evs) - 1))

IssueArgs ==
    {a \in [state : {"open", "closed"},
            nodes : SeqsUpTo(Node, MaxNodes),
            events : SeqsUpTo(Event, MaxEvents)] :
        /\ a.state = StateAfter(a.events)
        /\ \A k \in DOMAIN a.events :
              a.events[k].event = "reopened" =>
                  a.events[k].commit_id = NoSha /\ a.events[k].ours}

InitIssue ==
    /\ prs = <<>>
    /\ iss = <<>>
    /\ no_verify = FALSE
    /\ run = 1
    /\ pc = "function"
    /\ li = 1
    /\ pulls = <<>>
    /\ issues = <<>>
    /\ shas = <<>>
    /\ vi = 1
    /\ xi = 1
    /\ warnings = {}
    /\ mi = 1
    /\ files = <<>>
    /\ net = <<>>
    /\ outcome = <<>>
    /\ last = NoCall
    /\ arg \in IssueArgs
    /\ ret = NoRet

Script == <<prs, iss, no_verify, run, pc, li, pulls, issues, shas, vi, xi,
            warnings, mi, files, net, outcome, last>>

CallGraphQuery ==
    /\ pc = "function"
    /\ ret.graph = NotCalled
    /\ ret' = [ret EXCEPT !.graph = issue_get_closing_sha(arg)]
    /\ UNCHANGED <<Script, arg>>

CallEventLog ==
    /\ pc = "function"
    /\ ret.events = NotCalled
    /\ ret' = [ret EXCEPT !.events = api_issue_get_closing_sha(arg)]
    /\ UNCHANGED <<Script, arg>>

NextIssue ==
    \/ CallGraphQuery
    \/ CallEventLog

SpecIssue == InitIssue /\ [][NextIssue]_vars

----------------------------------------------------------------------------
(* Properties *)

\* s is a parent chain read child first: each entry is a parent of the one before
NewestFirst(s) == \A k \in 1..(Len(s) - 1) : s[k + 1] \in Range(Parents(s[k]))

\* s is a parent chain read parent first: each entry is a parent of the one after
OldestFirst(s) == \A k \in 1..(Len(s) - 1) : s[k] \in Range(Parents(s[k + 1]))

\* the most recent resolver call returned for a pull request that landed through
\* a merge commit with two parents
ResolvedTrueMerge ==
    /\ last.pr # 0
    /\ last.res.raised = "no"
    /\ Len(Parents(MergeSha(last.pr))) = 2

\* C1 as stated: for a pull request whose merge SHA has exactly 2 parents,
\* pr_get_repo_shas returns exactly N commits of the second parent's ancestry
\* and the returned list is oldest first, ending with the second parent.
C1_ReturnsOldestFirst ==
    ResolvedTrueMerge =>
        LET s == last.res.shas
            top == Parents(MergeSha(last.pr))[2]
        IN /\ Len(s) = prs[last.pr].commits
           /\ Range(s) \subseteq Ancestors(top)
           /\ s[Len(s)] = top
           /\ OldestFirst(s)

\* C1 amended: for a pull request whose merge SHA has exactly 2 parents,
\* pr_get_repo_shas returns exactly N commits of the second parent's ancestry in
\* walk order, newest first and starting with the second parent; it is
\* pr_to_patch that reverses the list, so the written patch is oldest first.
C1_ReturnsNewestFirst ==
    ResolvedTrueMerge =>
        LET s == last.res.shas
            top == Parents(MergeSha(last.pr))[2]
            f == FName(prs[last.pr].closed_at, last.pr)
        IN /\ Len(s) = prs[last.pr].commits
           /\ Range(s) \subseteq Ancestors(top)
           /\ s[1] = top
           /\ NewestFirst(s)
           /\ (last.phase = "materialize" /\ outcome[last.pr] = "written") =>
                  /\ Len(files[f].content) = Len(s)
                  /\ files[f].content[Len(s)] = top
                  /\ OldestFirst(files[f].content)

C1_Witness ==
    /\ ResolvedTrueMerge
    /\ prs[last.pr].commits >= 2
    /\ last.phase = "materialize"
    /\ outcome[last.pr] = "written"

\* none of the commits walked from the top-of-branch commit has a key of the
\* pull request's own commits
Squashed(i) ==
    LET top == top_sha(MergeSha(i))
    IN Unmatched(i, top) = Range(repo_shas(i, top))

\* C2: for a squashed pull request (no walked commit matches a key of the pull
\* request's own commits) pr_get_repo_shas returns exactly one commit, the
\* merge/top SHA, for every N >= 1.
C2_SquashedReturnsTop ==
    (last.pr # 0 /\ last.res.raised = "no" /\ Squashed(last.pr)) =>
        last.res.shas = <<top_sha(MergeSha(last.pr))>>

\* the sequence a pull request resolves to (empty when the resolver raises)
ResolvedShas(i) == Range(pr_get_repo_shas(i).shas)

\* entries of pulls the verification pass has gone through
Verified == 1..Min(vi - 1, Len(pulls))

\* C3: the verification pass raises whenever two distinct pull requests resolve
\* to sequences sharing a commit (it never gets past both), and in every state
\* a commit of the mapping belongs to the first pull request that claimed it:
\* no later pull request overwrites it.
C3_CollisionRaises ==
    /\ pc # "crashed_verify" =>
          \A a, b \in Verified :
              a # b => ResolvedShas(pulls[a].val) \cap ResolvedShas(pulls[b].val) = {}
    /\ \A s \in DOMAIN shas :
          /\ \E a \in Verified : pulls[a].val = shas[s]
          /\ s \in ResolvedShas(shas[s])
          /\ \A a \in Verified :
                s \in ResolvedShas(pulls[a].val) =>
                    \E b \in Verified : b <= a /\ pulls[b].val = shas[s]

C3_Witness ==
    /\ pc = "crashed_verify"
    /\ last.res.raised = "no"
    /\ Len(pulls) >= 2
    /\ \E s \in DOMAIN shas : shas[s] # last.pr /\ s \in Range(last.res.shas)

\* the patch file of pull request i
PatchOf(i) == FName(prs[i].closed_at, i)

\* C4: once the patch file of a pull request exists in patches/ or
\* patches/done/, materializing that pull request again skips it: no resolver
\* call, no patch request, and the file's content stays as it is.
C4_Idempotent ==
    [][\A i \in DOMAIN prs :
          PatchOf(i) \in DOMAIN files =>
              /\ net'[i] = net[i]
              /\ PatchOf(i) \in DOMAIN files'
              /\ files'[PatchOf(i)].content = files[PatchOf(i)].content
              /\ (pc = "materialize" /\ mi <= Len(pulls) /\ pulls[mi].val = i) =>
                    /\ outcome'[i] = "skipped"
                    /\ last' = last
                    /\ files' = files]_vars

C4_Witness ==
    /\ run = 2
    /\ \E i \in DOMAIN prs :
          /\ outcome[i] = "skipped"
          /\ net[i].resolves = 1
          /\ files[PatchOf(i)].dir = "done"

\* C5: when a patch request of a pull request fails, no file is created for the
\* pull request (the commits fetched so far are dropped) and the loop goes on
\* to the next pull request; a file that exists holds every commit of the
\* resolved sequence.
C5_NoPartialPatch ==
    /\ [](\A i \in DOMAIN outcome : outcome[i] = "failed" => PatchOf(i) \notin DOMAIN files)
    /\ [](\A f \in DOMAIN files : Range(files[f].content) = ResolvedShas(f[2]))
    /\ [][(last' # last /\ last'.failAt # 0) =>
              /\ files' = files
              /\ outcome'[last'.pr] = "failed"
              /\ pc' = "materialize"
              /\ mi' = mi + 1]_vars

C5_Witness ==
    /\ pc = "done"
    /\ \E i, j \in DOMAIN outcome :
          /\ outcome[i] = "failed"
          /\ net[i].requests = 2
          /\ outcome[j] = "written"
          /\ i < j

Unmerged == {i \in DOMAIN prs : ~prs[i].merged}

\* C6: if a closed pull request of the milestone is not merged, the run ends
\* in the listing loop, at the first such pull request: the verification never
\* starts, the resolver is never called and no patch file is written.
C6_UnmergedIsFatal ==
    Unmerged # {} =>
        /\ pc \in {"list", "exit1"}
        /\ shas = <<>>
        /\ warnings = {}
        /\ last = NoCall
        /\ files = <<>>
        /\ \A i \in DOMAIN outcome : outcome[i] = "none"
        /\ li <= SetMax(Unmerged) + 1
        /\ pc = "exit1" => li - 1 \in Unmerged

C6_Witness ==
    /\ pc = "exit1"
    /\ Len(pulls) >= 1

\* C7: a closed issue whose closing pull request is one of the merged pull
\* requests handed to the verifier gets no 'Could not find a PR that closed
\* issue' warning, whichever way the pull request was merged.
C7_CoveredIssueNoWarning ==
    \A j \in warnings :
        ~(/\ iss[j].kind = "pull"
          /\ prs[iss[j].pr].merged
          /\ \E n \in DOMAIN pulls : pulls[n].val = iss[j].pr)

\* C8: issue_get_closing_sha raises AssertionError for every issue that is not
\* closed, in the graph-query variant and in the event-log variant alike.
C8_NotClosedRaises ==
    arg.state # "closed" =>
        /\ ret.graph # NotCalled => ret.graph.raised = "AssertionError"
        /\ ret.events # NotCalled => ret.events.raised = "AssertionError"

\* the patch-writing loop's resolver call raised
MaterializeRaised == last.phase = "materialize" /\ last.res.raised # "no"

\* C9 as stated: an integrity error raised while resolving one pull request in
\* the patch-writing loop leaves the loop running; when the script has ended,
\* the pull requests after it have been dealt with.
C9_LoopGoesOn ==
    (MaterializeRaised /\ Ended) =>
        \A n \in mi..Len(pulls) : outcome[pulls[n].val] # "none"

\* C9 amended: an integrity error raised while resolving one pull request in
\* the patch-writing loop is not caught: it ends the script there, and the
\* pull requests after it are neither resolved nor written in that run.
C9_ErrorEndsRun ==
    MaterializeRaised =>
        /\ pc = "crashed_materialize"
        /\ pulls[mi - 1].val = last.pr
        /\ outcome[last.pr] = "none"
        /\ \A n \in mi..Len(pulls) : outcome[pulls[n].val] = "none"

C9_Witness ==
    /\ MaterializeRaised
    /\ pc = "crashed_materialize"
    /\ mi <= Len(pulls)

\* C10: every merged pull request the forge returns is retained in pulls, also
\* when two of them share a closed timestamp, and has been skipped, failed or
\* written when the script reaches its end.
C10_AllPullsRetained ==
    /\ pc \notin {"list", "exit1"} =>
          Len(pulls) = Cardinality({i \in DOMAIN prs : prs[i].merged})
    /\ pc = "done" => \A i \in DOMAIN prs : outcome[i] # "none"

====
